---- MODULE Spec2Model ----
(***************************************************************************)
(* Model of the GLB post-processing pipeline:                              *)
(*   blender-scripts/add_foundation_blender.py  (foundation stage)         *)
(*   blender-scripts/glb_to_stl.py              (mesh repair stage)        *)
(*   blender-scripts/process_with_foundation.py (pipeline driver)          *)
(*                                                                         *)
(* Numbers.  Mesh coordinates are integers.  Ratios and min_thickness are  *)
(* hundredths (0.1 is 10).  Every derived length (x_size, radius,          *)
(* thickness, center, z) is a fixed-point integer counting 1/200 of a      *)
(* unit, which makes every division of the sizing formulas exact.          *)
(* float('inf') is the pair <<1, 0>>, float('-inf') is <<-1, 0>>, a finite *)
(* number n is <<0, n>>.                                                   *)
(***************************************************************************)
EXTENDS Integers, Sequences, FiniteSets, TLC

\* Largest number of mesh objects in an imported scene.
MaxObjects == 2

----------------------------------------------------------------------------
\* Numbers

PosInf == <<1, 0>>
NegInf == <<-1, 0>>
Fin(n) == <<0, n>>
IsFinite(a) == a[1] = 0
Val(a) == a[2]

\* a < b on extended numbers
LessF(a, b) == \/ a[1] < b[1]
               \/ (a[1] = 0 /\ b[1] = 0 /\ a[2] < b[2])

\* Python's min(a, b) and max(a, b): the first argument wins a tie
MinF(a, b) == IF LessF(b, a) THEN b ELSE a
MaxF(a, b) == IF LessF(a, b) THEN b ELSE a

MaxI(a, b) == IF b > a THEN b ELSE a

\* coordinate -> fixed point (1/200 units)
Fx(c) == 200 * c
\* fixed point times a ratio given in hundredths
MulRatio(x, r) == (x * r) \div 100

----------------------------------------------------------------------------
\* Mesh objects of the modeling host

\* obj.bound_box: the 8 corners of the local axis-aligned box, host order
BoundBox(lo, hi) ==
    << <<lo[1], lo[2], lo[3]>>, <<lo[1], lo[2], hi[3]>>,
       <<lo[1], hi[2], hi[3]>>, <<lo[1], hi[2], lo[3]>>,
       <<hi[1], lo[2], lo[3]>>, <<hi[1], lo[2], hi[3]>>,
       <<hi[1], hi[2], hi[3]>>, <<hi[1], hi[2], lo[3]>> >>

Identity3 == << <<1, 0, 0>>, <<0, 1, 0>>, <<0, 0, 1>> >>
RotZ90    == << <<0, -1, 0>>, <<1, 0, 0>>, <<0, 0, 1>> >>
MirrorX2  == << <<-2, 0, 0>>, <<0, 1, 0>>, <<0, 0, 1>> >>

MeshObj(lo, hi, lin, loc) ==
    [bound_box |-> BoundBox(lo, hi), matrix_world |-> [lin |-> lin, loc |-> loc]]

\* The mesh objects a scene is built from: a box, a rotated and moved box,
\* a single point, a vertical line, a mirrored and stretched box.
ObjBox    == MeshObj(<<-1, -1, 0>>, <<1, 1, 2>>, Identity3, <<0, 0, 0>>)
ObjRot    == MeshObj(<<0, 0, 0>>, <<1, 2, 1>>, RotZ90, <<3, 0, -1>>)
ObjPoint  == MeshObj(<<0, 0, 0>>, <<0, 0, 0>>, Identity3, <<0, 0, -1>>)
ObjLine   == MeshObj(<<0, 0, 0>>, <<0, 0, 3>>, Identity3, <<0, 0, 0>>)
ObjMirror == MeshObj(<<0, 0, 0>>, <<1, 1, 1>>, MirrorX2, <<1, -2, 1>>)
MeshObjs  == {ObjBox, ObjRot, ObjPoint, ObjLine, ObjMirror}

IsInjective(s) == \A i, j \in 1..Len(s) : s[i] = s[j] => i = j
\* mesh_objects: every list of distinct objects, in every order
Scenes == UNION {{s \in [1..n -> MeshObjs] : IsInjective(s)} : n \in 0..MaxObjects}

\* The order in which the host lists the 8 corners of a bound_box, and the
\* orders a scan of them is tried with
HostOrder == <<1, 2, 3, 4, 5, 6, 7, 8>>
CornerOrders == { HostOrder,
                  <<8, 7, 6, 5, 4, 3, 2, 1>>,
                  <<3, 7, 1, 5, 8, 2, 6, 4>> }

\* matrix_world @ mathutils.Vector(corner)
MatVec(m, v) == [i \in 1..3 |-> m[i][1] * v[1] + m[i][2] * v[2] + m[i][3] * v[3]]
WorldCorner(obj, corner) ==
    [i \in 1..3 |-> MatVec(obj.matrix_world.lin, corner)[i] + obj.matrix_world.loc[i]]

\* bbox_corners of one object
bbox_corners(obj, order) == [k \in 1..8 |-> WorldCorner(obj, obj.bound_box[order[k]])]

----------------------------------------------------------------------------
\* add_circular_foundation: bounding box

InitBox == [min_coords |-> <<PosInf, PosInf, PosInf>>,
            max_coords |-> <<NegInf, NegInf, NegInf>>]

UpdateBoxNoMax(box, corner) ==
    [min_coords |-> [i \in 1..3 |-> MinF(box.min_coords[i], Fin(corner[i]))],
     max_coords |-> [i \in 1..3 |-> IF box.max_coords[i] = NegInf
                                     THEN Fin(corner[i]) ELSE box.max_coords[i]]]

\* the body of "for i in range(3)" for one corner
UpdateBox(box, corner) ==
    [min_coords |-> [i \in 1..3 |-> MinF(box.min_coords[i], Fin(corner[i]))],
     max_coords |-> [i \in 1..3 |-> MaxF(box.max_coords[i], Fin(corner[i]))]]

RECURSIVE ScanCorners(_, _, _)
\* "for corner in bbox_corners"
ScanCorners(corners, k, box) ==
    IF k > Len(corners) THEN box
    ELSE ScanCorners(corners, k + 1, UpdateBox(box, corners[k]))

RECURSIVE ScanObjects(_, _, _, _)
\* "for obj in mesh_objects"
ScanObjects(mesh_objects, order, n, box) ==
    IF n > Len(mesh_objects) THEN box
    ELSE ScanObjects(mesh_objects, order, n + 1,
                     ScanCorners(bbox_corners(mesh_objects[n], order), 1, box))

----------------------------------------------------------------------------
\* add_circular_foundation: sizing

x_size(box) == Fx(Val(box.max_coords[1])) - Fx(Val(box.min_coords[1]))
y_size(box) == Fx(Val(box.max_coords[2])) - Fx(Val(box.min_coords[2]))
z_min(box)  == Fx(Val(box.min_coords[3]))

max_dimension(box) == MaxI(x_size(box), y_size(box))

foundation_radius(box, margin_ratio) ==
    MulRatio(max_dimension(box) \div 2, 100 + margin_ratio)

foundation_thickness_no_floor(box, thickness_ratio, min_thickness) ==
    MulRatio(max_dimension(box), thickness_ratio)

foundation_thickness(box, thickness_ratio, min_thickness) ==
    MaxI(MulRatio(max_dimension(box), thickness_ratio), 2 * min_thickness)

center_x(box) == (Fx(Val(box.min_coords[1])) + Fx(Val(box.max_coords[1]))) \div 2
center_y(box) == (Fx(Val(box.min_coords[2])) + Fx(Val(box.max_coords[2]))) \div 2

foundation_z(box, thickness_ratio, min_thickness) ==
    z_min(box) - foundation_thickness(box, thickness_ratio, min_thickness) \div 2

\* number of sides of the generated cylinder
CylinderVertices == 64

\* the arguments of bpy.ops.mesh.primitive_cylinder_add
CylinderArgs(box, margin_ratio, thickness_ratio, min_thickness) ==
    [radius   |-> foundation_radius(box, margin_ratio),
     depth    |-> foundation_thickness(box, thickness_ratio, min_thickness),
     location |-> <<center_x(box), center_y(box),
                    foundation_z(box, thickness_ratio, min_thickness)>>,
     vertices |-> CylinderVertices]

----------------------------------------------------------------------------
\* add_circular_foundation: output format

\* A path is a sequence of one-character strings.
UpperCase == <<"A", "B", "C", "D", "E", "F", "G", "H", "I", "J", "K", "L", "M",
               "N", "O", "P", "Q", "R", "S", "T", "U", "V", "W", "X", "Y", "Z">>
LowerCase == <<"a", "b", "c", "d", "e", "f", "g", "h", "i", "j", "k", "l", "m",
               "n", "o", "p", "q", "r", "s", "t", "u", "v", "w", "x", "y", "z">>

LowerChar(c) == IF \E k \in 1..26 : UpperCase[k] = c
                THEN LowerCase[CHOOSE k \in 1..26 : UpperCase[k] = c]
                ELSE c
\* str.lower()
Lower(s) == [k \in 1..Len(s) |-> LowerChar(s[k])]

\* str.rfind(c), 1-based, 0 when c does not occur
RFind(s, c) == IF \E k \in 1..Len(s) : s[k] = c
               THEN CHOOSE k \in 1..Len(s) :
                        s[k] = c /\ \A j \in (k + 1)..Len(s) : s[j] # c
               ELSE 0

\* os.path.splitext(path)[1]: from the last dot of the last path component,
\* unless that component consists of leading dots up to it
SplitExt(path) ==
    LET sepIndex == RFind(path, "/")
        dotIndex == RFind(path, ".")
    IN  IF dotIndex > sepIndex
           /\ \E k \in (sepIndex + 1)..(dotIndex - 1) : path[k] # "."
        THEN SubSeq(path, dotIndex, Len(path))
        ELSE <<>>

file_ext_no_lower(output_path) == SplitExt(output_path)

file_ext(output_path) == Lower(SplitExt(output_path))

ExtStl  == <<".", "s", "t", "l">>
ExtGlb  == <<".", "g", "l", "b">>
ExtGltf == <<".", "g", "l", "t", "f">>

\* the exporter calls of the if / elif / else on file_ext
ExportCalls(output_path) ==
    IF file_ext(output_path) = ExtStl
    THEN <<[op |-> "wm.stl_export", filepath |-> output_path]>>
    ELSE IF file_ext(output_path) \in {ExtGlb, ExtGltf}
    THEN <<[op |-> "export_scene.gltf", filepath |-> output_path]>>
    ELSE <<>>

ExportPrints(output_path) ==
    IF file_ext(output_path) = ExtStl THEN <<"Exporting to STL">>
    ELSE IF file_ext(output_path) \in {ExtGlb, ExtGltf} THEN <<"Exporting to GLB">>
    ELSE <<"Unsupported format">>

ExportSupported(output_path) == file_ext(output_path) \in {ExtStl, ExtGlb, ExtGltf}

\* Output paths: out.stl out.STL out.glb out.Gltf out.obj out .stl
\* a.stl/out out.stl.obj
OutputPaths ==
    { <<"o", "u", "t", ".", "s", "t", "l">>,
      <<"o", "u", "t", ".", "S", "T", "L">>,
      <<"o", "u", "t", ".", "g", "l", "b">>,
      <<"o", "u", "t", ".", "G", "l", "t", "f">>,
      <<"o", "u", "t", ".", "o", "b", "j">>,
      <<"o", "u", "t">>,
      <<".", "s", "t", "l">>,
      <<"a", ".", "s", "t", "l", "/", "o", "u", "t">>,
      <<"o", "u", "t", ".", "s", "t", "l", ".", "o", "b", "j">> }

----------------------------------------------------------------------------
\* add_circular_foundation

\* the result before the function is called
NoResult == [called |-> FALSE, ret |-> FALSE, prints |-> <<>>, box |-> InitBox,
             cylinder |-> <<>>, joined |-> FALSE, exports |-> <<>>]

\* "if not mesh_objects"
no_mesh_objects(mesh_objects) == Len(mesh_objects) = 0

\* The call add_circular_foundation(glb_path, output_path, margin_ratio,
\* thickness_ratio, min_thickness) on a scene whose import yields
\* mesh_objects: the return value, the messages, and the host operations
\* performed (cylinder generation, join, exporter calls).
add_circular_foundation(mesh_objects, order, output_path, margin_ratio, thickness_ratio, min_thickness) ==
    IF no_mesh_objects(mesh_objects)
    THEN [called |-> TRUE, ret |-> FALSE,
          prints |-> <<"Importing", "No mesh objects found">>,
          box |-> InitBox, cylinder |-> <<>>, joined |-> FALSE, exports |-> <<>>]
    ELSE LET box == ScanObjects(mesh_objects, order, 1, InitBox)
         IN  [called |-> TRUE,
              ret |-> ExportSupported(output_path),
              prints |-> <<"Importing", "Model dimensions", "Foundation">>
                         \o ExportPrints(output_path)
                         \o (IF ExportSupported(output_path)
                             THEN <<"Foundation added successfully">> ELSE <<>>),
              box |-> box,
              cylinder |-> <<CylinderArgs(box, margin_ratio, thickness_ratio,
                                          min_thickness)>>,
              joined |-> TRUE,
              exports |-> ExportCalls(output_path)]

\* defaults of the signature
DefaultMarginRatio    == 10
DefaultThicknessRatio == 5
DefaultMinThickness   == 5

----------------------------------------------------------------------------
\* State

VARIABLES
    sys_argv,     \* the driver's command line
    pc,           \* the driver's position: start, Repairing, Converting,
                  \* FoundationBuilding, Done, Failed, NoOp
    fs,           \* names of the files that exist
    created,      \* files written since the run started
    removes,      \* os.remove calls per file name
    calls,        \* external stages the driver has invoked, in order
    exits,        \* what subprocess.run reported for each of them
    out,          \* messages printed by the driver
    rpc,          \* position inside glb_to_stl.py
    rlog,         \* glb_to_stl.py: failed sub-steps, warnings, aborting step
    call,         \* arguments of add_circular_foundation
    res,          \* result of add_circular_foundation
    blender_out   \* messages printed by add_foundation_blender.main

vars == <<sys_argv, pc, fs, created, removes, calls, exits, out, rpc, rlog,
          call, res, blender_out>>

\* file names
InputGlb  == "input.glb"
temp_stl  == "temp.stl"
temp_smoothed_stl == "smoothed_temp.stl"
temp_glb  == "smoothed_temp.glb"
FileNames == {InputGlb, temp_stl, temp_smoothed_stl, temp_glb}

NoCall == [mesh_objects |-> <<>>, order |-> <<>>, output_path |-> <<>>,
           margin_ratio |-> 0, thickness_ratio |-> 0, min_thickness |-> 0]

NoLog == [failed |-> {}, warned |-> {}, abortedAt |-> "none"]

----------------------------------------------------------------------------
\* add_foundation_blender.main

\* float() of the ratio arguments, in hundredths
FloatOf(str) ==
    CASE str = "0.01" -> 1
      [] str = "0.05" -> 5
      [] str = "0.1"  -> 10
      [] str = "0.15" -> 15

\* The arguments main passes to add_circular_foundation, from the words
\* after "--" on the host's command line.
MainCall(argv, mesh_objects, order) ==
    [mesh_objects    |-> mesh_objects,
     order           |-> order,
     output_path     |-> argv[2],
     margin_ratio    |-> IF Len(argv) > 2 THEN FloatOf(argv[3]) ELSE DefaultMarginRatio,
     thickness_ratio |-> IF Len(argv) > 3 THEN FloatOf(argv[4]) ELSE DefaultThicknessRatio,
     min_thickness   |-> DefaultMinThickness]

Apply(c) == add_circular_foundation(c.mesh_objects, c.order, c.output_path,
                                    c.margin_ratio, c.thickness_ratio, c.min_thickness)

\* the words after "--", which the driver puts fifth on the command line
AfterDashes(host_argv) == SubSeq(host_argv, 6, Len(host_argv))

\* main returns before calling add_circular_foundation
MainReturnsEarly(host_argv, files) ==
    \/ Len(host_argv) < 6
    \/ AfterDashes(host_argv)[1] \notin files

MainPrints(host_argv, files, mesh_objects, order) ==
    IF Len(host_argv) < 6 THEN <<"Usage">>
    ELSE IF AfterDashes(host_argv)[1] \notin files THEN <<"Input file not found">>
    ELSE IF Apply(MainCall(AfterDashes(host_argv), mesh_objects, order)).ret
         THEN <<"Successfully created">>
         ELSE <<"Failed to create foundation">>

\* main returns None on every path, so the host process exits with status 0
MainExitStatus(host_argv, files, mesh_objects, order) == 0

----------------------------------------------------------------------------
\* glb_to_stl.py, run as the driver's first subprocess

\* outcomes of a call that writes a file: written, failed before writing,
\* failed leaving a file behind
WriteOutcomes == {"ok", "fail", "fail_partial"}

\* "if len(sys.argv) != 3: sys.exit(1)", else on to the converter call
GlbToStlEntry(script_argv) == IF Len(script_argv) # 3 THEN "exit1" ELSE "assimp"

Abort(step) == [rlog EXCEPT !.failed = @ \cup {step}, !.abortedAt = step]
Warn(step)  == [rlog EXCEPT !.failed = @ \cup {step}, !.warned = @ \cup {step}]

\* subprocess.run(["assimp", "export", input_glb, temp_stl], check=True)
R_Assimp ==
    /\ rpc = "assimp"
    /\ \E o \in WriteOutcomes :
        /\ fs' = IF o = "fail" THEN fs ELSE fs \cup {temp_stl}
        /\ created' = IF o = "fail" THEN created ELSE created \cup {temp_stl}
        /\ rpc' = IF o = "ok" THEN "load" ELSE "exit1"
        /\ rlog' = IF o = "ok" THEN rlog ELSE Abort("assimp")
    /\ UNCHANGED <<sys_argv, pc, removes, calls, exits, out, call, res, blender_out>>

\* mesh = trimesh.load(temp_stl)
R_Load ==
    /\ rpc = "load"
    /\ \E ok \in BOOLEAN :
        /\ rpc' = IF ok THEN "fill_holes" ELSE "exit1"
        /\ rlog' = IF ok THEN rlog ELSE Abort("load")
    /\ UNCHANGED <<sys_argv, pc, fs, created, removes, calls, exits, out, call, res,
                   blender_out>>

\* try: mesh.fill_holes() except Exception: print warning
R_FillHoles ==
    /\ rpc = "fill_holes"
    /\ \E ok \in BOOLEAN :
        /\ rpc' = "unique_faces"
        /\ rlog' = IF ok THEN rlog ELSE Warn("fill_holes")
    /\ UNCHANGED <<sys_argv, pc, fs, created, removes, calls, exits, out, call, res,
                   blender_out>>

\* mesh.update_faces(mesh.unique_faces()), outside any try
R_UniqueFaces ==
    /\ rpc = "unique_faces"
    /\ \E ok \in BOOLEAN :
        /\ rpc' = IF ok THEN "remove_unreferenced" ELSE "exit1"
        /\ rlog' = IF ok THEN rlog ELSE Abort("unique_faces")
    /\ UNCHANGED <<sys_argv, pc, fs, created, removes, calls, exits, out, call, res,
                   blender_out>>

\* mesh.remove_unreferenced_vertices(), outside any try
R_RemoveUnreferenced ==
    /\ rpc = "remove_unreferenced"
    /\ \E ok \in BOOLEAN :
        /\ rpc' = IF ok THEN "smooth" ELSE "exit1"
        /\ rlog' = IF ok THEN rlog ELSE Abort("remove_unreferenced")
    /\ UNCHANGED <<sys_argv, pc, fs, created, removes, calls, exits, out, call, res,
                   blender_out>>

\* The smoothing try: mesh.smoothed() succeeds ("ok"); it raises
\* AttributeError and filter_laplacian succeeds ("fallback_ok") or raises
\* ("fallback_fail"); or it raises another Exception ("fail").
SmoothOutcomes == {"ok", "fallback_ok", "fallback_fail", "fail"}

R_Smooth ==
    /\ rpc = "smooth"
    /\ \E o \in SmoothOutcomes :
        /\ rpc' = "export"
        /\ rlog' = IF o \in {"fallback_fail", "fail"} THEN Warn("smooth") ELSE rlog
    /\ UNCHANGED <<sys_argv, pc, fs, created, removes, calls, exits, out, call, res,
                   blender_out>>

\* mesh.export(output_stl); the driver passes temp_smoothed_stl as output_stl
R_Export ==
    /\ rpc = "export"
    /\ \E o \in WriteOutcomes :
        /\ fs' = IF o = "fail" THEN fs ELSE fs \cup {temp_smoothed_stl}
        /\ created' = IF o = "fail" THEN created ELSE created \cup {temp_smoothed_stl}
        /\ rpc' = IF o = "ok" THEN "remove" ELSE "exit1"
        /\ rlog' = IF o = "ok" THEN rlog ELSE Abort("export")
    /\ UNCHANGED <<sys_argv, pc, removes, calls, exits, out, call, res, blender_out>>

\* os.remove(temp_stl), the last statement of the script
R_Remove ==
    /\ rpc = "remove"
    /\ removes' = [removes EXCEPT ![temp_stl] = @ + 1]
    /\ \E ok \in BOOLEAN :
        /\ fs' = IF ok THEN fs \ {temp_stl} ELSE fs
        /\ rpc' = IF ok THEN "exit0" ELSE "exit1"
        /\ rlog' = IF ok THEN rlog ELSE Abort("remove")
    /\ UNCHANGED <<sys_argv, pc, created, calls, exits, out, call, res, blender_out>>

----------------------------------------------------------------------------
\* process_with_foundation.main

\* ratio arguments given on the command line; "0.1" and "0.05" are what the
\* driver passes on when they are left out
MarginArgs    == {"0.15"}
ThicknessArgs == {"0.01"}

\* command lines: script name, then up to four arguments
Argvs ==
    {<<"process_with_foundation.py">>, <<"process_with_foundation.py", InputGlb>>}
    \cup {<<"process_with_foundation.py", InputGlb, o>> : o \in OutputPaths}
    \cup {<<"process_with_foundation.py", InputGlb, o, m>> :
              o \in OutputPaths, m \in MarginArgs}
    \cup {<<"process_with_foundation.py", InputGlb, o, m, t>> :
              o \in OutputPaths, m \in MarginArgs, t \in ThicknessArgs}

output_stl(argv)      == argv[3]
margin_ratio(argv)    == IF Len(argv) > 3 THEN argv[4] ELSE "0.1"
thickness_ratio(argv) == IF Len(argv) > 4 THEN argv[5] ELSE "0.05"

InputMissingIgnored(argv, files) == FALSE

\* "if not os.path.exists(input_glb)"
InputMissing(argv, files) == argv[2] \notin files

\* the command line of the modeling host in step 3
HostArgv(argv) ==
    <<"blender", "--background", "--python", "add_foundation_blender.py", "--",
      temp_glb, output_stl(argv), margin_ratio(argv), thickness_ratio(argv)>>

AfterRepairAlwaysOn(status) == "Converting"

\* try / except CalledProcessError around step 1
AfterRepair(status) == IF status = "exit0" THEN "Converting" ELSE "Failed"

RECURSIVE CleanupLoop(_, _, _, _)
\* "for temp_file in files: if os.path.exists(temp_file): os.remove(temp_file)";
\* os.remove raises for the file named bad, which ends the loop
CleanupLoop(files, k, st, bad) ==
    IF k > Len(files) \/ st.raised THEN st
    ELSE IF files[k] \notin st.fs THEN CleanupLoop(files, k + 1, st, bad)
    ELSE CleanupLoop(files, k + 1,
            [fs      |-> IF files[k] = bad THEN st.fs ELSE st.fs \ {files[k]},
             removes |-> [st.removes EXCEPT ![files[k]] = @ + 1],
             raised  |-> files[k] = bad,
             cleaned |-> IF files[k] = bad THEN st.cleaned
                         ELSE Append(st.cleaned, "Cleaned up")],
            bad)

Cleanup(files, bad) ==
    CleanupLoop(files, 1,
                [fs |-> fs, removes |-> removes, raised |-> FALSE, cleaned |-> <<>>],
                bad)

\* usage check, input check, then step 1 starts glb_to_stl.py
Start ==
    /\ pc = "start"
    /\ IF Len(sys_argv) < 3
       THEN /\ out' = Append(out, "Usage")
            /\ pc' = "NoOp"
            /\ UNCHANGED <<calls, rpc>>
       ELSE IF InputMissing(sys_argv, fs)
       THEN /\ out' = Append(out, "Input file not found")
            /\ pc' = "NoOp"
            /\ UNCHANGED <<calls, rpc>>
       ELSE /\ out' = Append(out, "Step 1")
            /\ pc' = "Repairing"
            /\ calls' = Append(calls, "repair")
            /\ rpc' = GlbToStlEntry(<<"glb_to_stl.py", sys_argv[2], temp_smoothed_stl>>)
    /\ UNCHANGED <<sys_argv, fs, created, removes, exits, rlog, call, res, blender_out>>

\* subprocess.run of step 1 returns
RepairReturn ==
    /\ pc = "Repairing"
    /\ rpc \in {"exit0", "exit1"}
    /\ pc' = AfterRepair(rpc)
    /\ exits' = Append(exits, IF rpc = "exit0" THEN "ok" ELSE "nonzero")
    /\ out' = IF rpc = "exit0"
              THEN out \o <<"Smoothed STL created", "Step 2">>
              ELSE Append(out, "Error in trimesh smoothing")
    /\ UNCHANGED <<sys_argv, fs, created, removes, calls, rpc, rlog, call, res,
                   blender_out>>

\* step 2: assimp export temp_smoothed_stl temp_glb, and its except branch
Convert ==
    /\ pc = "Converting"
    /\ calls' = Append(calls, "convert")
    /\ \E o \in WriteOutcomes, bad \in {"none", temp_smoothed_stl} :
        IF o = "ok"
        THEN /\ fs' = fs \cup {temp_glb}
             /\ created' = created \cup {temp_glb}
             /\ exits' = Append(exits, "ok")
             /\ out' = out \o <<"Temporary GLB created", "Step 3">>
             /\ pc' = "FoundationBuilding"
             /\ UNCHANGED removes
        ELSE LET files == IF o = "fail" THEN fs ELSE fs \cup {temp_glb}
                 st == CleanupLoop(<<temp_smoothed_stl>>, 1,
                                   [fs |-> files, removes |-> removes,
                                    raised |-> FALSE, cleaned |-> <<>>], bad)
             IN  /\ fs' = st.fs
                 /\ removes' = st.removes
                 /\ created' = IF o = "fail" THEN created ELSE created \cup {temp_glb}
                 /\ exits' = Append(exits, "nonzero")
                 /\ out' = Append(out, "Error converting STL to GLB")
                 /\ pc' = "Failed"
    /\ UNCHANGED <<sys_argv, rpc, rlog, call, res, blender_out>>

\* step 3: the modeling host runs add_foundation_blender.py, then the finally
\* block removes the temp files.  launch is "ran" when the host ran the
\* script to its end, "crash" when it exited with a non-zero status,
\* "notfound" when the executable could not be started.
FoundationStep(launch, mesh_objects, bad) ==
        LET host_argv == HostArgv(sys_argv)
            order     == HostOrder
            ran       == launch = "ran"
            early     == MainReturnsEarly(host_argv, fs)
            status    == IF ran THEN MainExitStatus(host_argv, fs, mesh_objects, order)
                         ELSE 1
            st        == Cleanup(<<temp_smoothed_stl, temp_glb>>, bad)
        IN  /\ blender_out' = IF ran THEN MainPrints(host_argv, fs, mesh_objects, order)
                              ELSE blender_out
            /\ call' = IF ran /\ ~early
                       THEN MainCall(AfterDashes(host_argv), mesh_objects, order)
                       ELSE call
            /\ res' = IF ran /\ ~early
                      THEN Apply(MainCall(AfterDashes(host_argv), mesh_objects, order))
                      ELSE res
            /\ exits' = Append(exits, IF launch = "notfound" THEN "notfound"
                                      ELSE IF status = 0 THEN "ok" ELSE "nonzero")
            /\ fs' = st.fs
            /\ removes' = st.removes
            /\ IF launch # "notfound" /\ status = 0
               THEN /\ out' = out \o <<"Final STL with foundation created">>
                              \o st.cleaned
                              \o (IF st.raised THEN <<>> ELSE <<"Success">>)
                    /\ pc' = IF st.raised THEN "Failed" ELSE "Done"
               ELSE /\ out' = out
                              \o (IF launch = "notfound" THEN <<>>
                                  ELSE <<"Error adding foundation">>)
                              \o st.cleaned
                    /\ pc' = "Failed"

\* The scene the host imports from temp_glb matters only when the script ran.
Foundation ==
    /\ pc = "FoundationBuilding"
    /\ calls' = Append(calls, "foundation")
    /\ \E bad \in {"none", temp_smoothed_stl, temp_glb} :
        \/ \E mesh_objects \in Scenes : FoundationStep("ran", mesh_objects, bad)
        \/ \E launch \in {"crash", "notfound"} : FoundationStep(launch, <<>>, bad)
    /\ UNCHANGED <<sys_argv, created, rpc, rlog>>

Init ==
    /\ sys_argv \in Argvs
    /\ fs \in {{}, {InputGlb}}
    /\ pc = "start"
    /\ created = {}
    /\ removes = [f \in FileNames |-> 0]
    /\ calls = <<>>
    /\ exits = <<>>
    /\ out = <<>>
    /\ rpc = "idle"
    /\ rlog = NoLog
    /\ call = NoCall
    /\ res = NoResult
    /\ blender_out = <<>>

Next ==
    \/ Start
    \/ R_Assimp \/ R_Load \/ R_FillHoles \/ R_UniqueFaces \/ R_RemoveUnreferenced
    \/ R_Smooth \/ R_Export \/ R_Remove
    \/ RepairReturn
    \/ Convert
    \/ Foundation

Spec == Init /\ [][Next]_vars

----------------------------------------------------------------------------
\* add_circular_foundation called directly, with every combination of inputs

MarginRatios    == {0, 10}
ThicknessRatios == {1, 5}
MinThicknesses  == {0, 5}

InitFoundation ==
    /\ call \in [mesh_objects : Scenes, order : CornerOrders,
                 output_path : OutputPaths, margin_ratio : MarginRatios,
                 thickness_ratio : ThicknessRatios, min_thickness : MinThicknesses]
    /\ res = NoResult
    /\ pc = "call"
    /\ sys_argv = <<>>
    /\ fs = {}
    /\ created = {}
    /\ removes = [f \in FileNames |-> 0]
    /\ calls = <<>>
    /\ exits = <<>>
    /\ out = <<>>
    /\ rpc = "idle"
    /\ rlog = NoLog
    /\ blender_out = <<>>

CallFoundation ==
    /\ pc = "call"
    /\ ~res.called
    /\ res' = Apply(call)
    /\ pc' = "returned"
    /\ UNCHANGED <<sys_argv, fs, created, removes, calls, exits, out, rpc, rlog, call,
                   blender_out>>

NextFoundation == CallFoundation

SpecFoundation == InitFoundation /\ [][NextFoundation]_vars

----------------------------------------------------------------------------
\* Properties of the pipeline driver (Spec, FairSpec)

\* A stage failed: a subprocess did not exit with status 0, or the
\* foundation script reported that it produced nothing.
StageFailed ==
    \/ \E i \in 1..Len(exits) : exits[i] # "ok"
    \/ \E i \in 1..Len(blender_out) :
           blender_out[i] \in {"Failed to create foundation", "Input file not found",
                               "Usage"}

\* C1: a run in which a stage failed (non-zero exit, missing file, unsupported
\* output format or no geometry in the foundation stage) never reaches Done.
C1_FailureNeverDone == pc = "Done" => ~StageFailed

\* C2: when the driver ends in Failed, removal has been attempted for every
\* temp artifact (smoothed STL, intermediate GLB) the run has created.
C2_CleanupOnFailed ==
    pc = "Failed" =>
        \A f \in {temp_smoothed_stl, temp_glb} : f \in created => removes[f] >= 1

\* C3: with the input file missing the driver prints "not found", invokes no
\* external stage and creates no file.
C3_MissingInputNoCalls ==
    (Len(sys_argv) >= 3 /\ sys_argv[2] \notin fs) =>
        /\ calls = <<>>
        /\ created = {}
        /\ fs = {}
        /\ \A f \in FileNames : removes[f] = 0
        /\ rpc = "idle"
        /\ ~res.called
        /\ pc \in {"start", "NoOp"}
        /\ pc = "NoOp" => out = <<"Input file not found">>

C3_Witness ==
    /\ pc = "NoOp"
    /\ Len(sys_argv) >= 3
    /\ sys_argv[2] \notin fs
    /\ out = <<"Input file not found">>

IsPrefix(s, t) == Len(s) <= Len(t) /\ \A i \in 1..Len(s) : s[i] = t[i]

StageOrder == <<"repair", "convert", "foundation">>

C9_Safety ==
    /\ IsPrefix(calls, StageOrder)
    /\ Len(exits) <= Len(calls)
    /\ \A i \in 2..Len(calls) : Len(exits) >= i - 1 /\ exits[i - 1] = "ok"
    /\ \A i \in 1..Len(exits) : exits[i] # "ok" => Len(calls) = i

\* The number of steps the run can still take: every step lowers it.
StepsLeft ==
    CASE pc = "start" -> 12
      [] pc = "Repairing" ->
           (CASE rpc = "assimp" -> 11
              [] rpc = "load" -> 10
              [] rpc = "fill_holes" -> 9
              [] rpc = "unique_faces" -> 8
              [] rpc = "remove_unreferenced" -> 7
              [] rpc = "smooth" -> 6
              [] rpc = "export" -> 5
              [] rpc = "remove" -> 4
              [] OTHER -> 3)
      [] pc = "Converting" -> 2
      [] pc = "FoundationBuilding" -> 1
      [] OTHER -> 0

\* C9: the stages are invoked in the order repair, convert, foundation, each
\* at most once, each only after the one before returned success, none after
\* a failure; and a run that has started the stages ends in Done or Failed:
\* it can always take a step until it is there, and it cannot step forever.
C9_OrderAndTermination ==
    /\ []C9_Safety
    /\ [](calls # <<>> /\ pc \notin {"Done", "Failed"} => ENABLED Next)
    /\ [](pc \in {"Done", "Failed", "NoOp"} => StepsLeft = 0)
    /\ [][StepsLeft' < StepsLeft]_vars

C9_Witness ==
    /\ pc = "Done"
    /\ calls = StageOrder
    /\ exits = <<"ok", "ok", "ok">>

RepairSubSteps == {"fill_holes", "unique_faces", "remove_unreferenced", "smooth"}

\* C7: a failing repair sub-step (hole filling, duplicate-face removal,
\* unreferenced-vertex removal, smoothing) only warns; it never aborts the
\* repair stage.
C7_SubStepFailureOnlyWarns ==
    \A step \in RepairSubSteps :
        step \in rlog.failed => step \in rlog.warned /\ rlog.abortedAt # step

\* C10: when the repair stage ends after the converter has written temp.stl,
\* temp.stl has been removed, by at most one removal attempt.
C10_ScratchRemoved ==
    (rpc \in {"exit0", "exit1"} /\ temp_stl \in created /\ rlog.abortedAt # "assimp") =>
        temp_stl \notin fs /\ removes[temp_stl] <= 1

----------------------------------------------------------------------------
\* Properties of add_circular_foundation (SpecFoundation)

HasGeometry == res.called /\ Len(call.mesh_objects) > 0

\* bounding-box extents, in coordinate units
BoxLo(i) == Val(res.box.min_coords[i])
BoxHi(i) == Val(res.box.max_coords[i])
Footprint == MaxI(BoxHi(1) - BoxLo(1), BoxHi(2) - BoxLo(2))

\* C4: the cylinder is generated with radius (max(x_size, y_size) / 2) *
\* (1 + margin_ratio), thickness max(max(x_size, y_size) * thickness_ratio,
\* min_thickness), center at the x/y midpoint of the box and z = min z -
\* thickness / 2; thickness is at least min_thickness, the top face is at the
\* model's lowest z, the z extent does not matter, and the two worked examples
\* come out as stated.  Lengths are in 1/200 units, ratios in hundredths.
C4_Sizing ==
    HasGeometry =>
        /\ Len(res.cylinder) = 1
        /\ LET cyl == res.cylinder[1]
               D   == Footprint
           IN  /\ cyl.radius = D * (100 + call.margin_ratio)
               /\ cyl.depth * 100 =
                      MaxI(200 * D * call.thickness_ratio, 200 * call.min_thickness)
               /\ cyl.depth >= 2 * call.min_thickness
               /\ cyl.location[1] = 100 * (BoxLo(1) + BoxHi(1))
               /\ cyl.location[2] = 100 * (BoxLo(2) + BoxHi(2))
               /\ 2 * cyl.location[3] = 400 * BoxLo(3) - cyl.depth
               /\ 2 * cyl.location[3] + cyl.depth = 2 * Fx(BoxLo(3))
               /\ \A dz \in 0..3 :
                      LET taller == [res.box EXCEPT
                                        !.max_coords[3] = Fin(BoxHi(3) + dz)]
                          other  == CylinderArgs(taller, call.margin_ratio,
                                                 call.thickness_ratio,
                                                 call.min_thickness)
                      IN  other.radius = cyl.radius /\ other.depth = cyl.depth
               /\ (/\ res.box.min_coords = <<Fin(-1), Fin(-1), Fin(0)>>
                   /\ res.box.max_coords = <<Fin(1), Fin(1), Fin(2)>>
                   /\ call.margin_ratio = 10
                   /\ call.min_thickness = 5)
                  => /\ cyl.radius = 220
                     /\ cyl.location[1] = 0 /\ cyl.location[2] = 0
                     /\ call.thickness_ratio = 5 =>
                            cyl.depth = 20 /\ cyl.location[3] = -10
                     /\ call.thickness_ratio = 1 => cyl.depth = 10

C4_Witness ==
    /\ res.called
    /\ call.mesh_objects = <<ObjBox>>
    /\ call.margin_ratio = 10
    /\ call.thickness_ratio = 1
    /\ call.min_thickness = 5
    /\ res.cylinder = <<[radius |-> 220, depth |-> 10, location |-> <<0, 0, -5>>,
                         vertices |-> 64]>>

\* C5: with max_dimension = 0 (x_size = 0 and y_size = 0) the call fails: no
\* cylinder is generated, nothing is merged or exported, no success reported.
C5_ZeroFootprintFails ==
    (HasGeometry /\ BoxHi(1) = BoxLo(1) /\ BoxHi(2) = BoxLo(2)) =>
        /\ ~res.ret
        /\ res.cylinder = <<>>
        /\ ~res.joined
        /\ res.exports = <<>>

\* what each output path is: out.stl and out.STL are STL, out.glb and
\* out.Gltf are glTF, the others have no supported extension
StlPaths  == { <<"o", "u", "t", ".", "s", "t", "l">>,
               <<"o", "u", "t", ".", "S", "T", "L">> }
GltfPaths == { <<"o", "u", "t", ".", "g", "l", "b">>,
               <<"o", "u", "t", ".", "G", "l", "t", "f">> }

Printed(msg) == \E i \in 1..Len(res.prints) : res.prints[i] = msg

\* C6: an output path whose lower-cased extension is none of .stl, .glb,
\* .gltf makes the call return failure with no exporter invoked, reported as
\* an unsupported format once the export step is reached; a .stl path invokes
\* exactly the STL exporter once, a .glb/.gltf path exactly the glTF exporter.
C6_ExportByExtension ==
    res.called =>
        /\ Len(res.exports) <= 1
        /\ call.output_path \notin (StlPaths \cup GltfPaths) =>
               /\ ~res.ret
               /\ res.exports = <<>>
               /\ ~Printed("Foundation added successfully")
               /\ HasGeometry => Printed("Unsupported format")
        /\ (HasGeometry /\ call.output_path \in StlPaths) =>
               /\ res.exports = <<[op |-> "wm.stl_export",
                                   filepath |-> call.output_path]>>
               /\ res.ret
        /\ (HasGeometry /\ call.output_path \in GltfPaths) =>
               /\ res.exports = <<[op |-> "export_scene.gltf",
                                   filepath |-> call.output_path]>>
               /\ res.ret

C6_Witness ==
    /\ HasGeometry
    /\ call.output_path = <<"o", "u", "t", ".", "o", "b", "j">>
    /\ ~res.ret
    /\ res.exports = <<>>
    /\ Printed("Unsupported format")

\* every world-space corner of every object of the scene
AllCorners ==
    {WorldCorner(call.mesh_objects[n], call.mesh_objects[n].bound_box[k]) :
         n \in 1..Len(call.mesh_objects), k \in 1..8}

Reverse(seq) == [i \in 1..Len(seq) |-> seq[Len(seq) + 1 - i]]

\* C8: for a non-empty scene the box contains every corner, each bound is
\* attained by some corner, min <= max, and the box does not depend on the
\* order of objects and corners; an empty scene fails with "no mesh objects
\* found", without a cylinder or an export.
C8_BoundingBox ==
    res.called =>
        IF Len(call.mesh_objects) = 0
        THEN /\ ~res.ret
             /\ Printed("No mesh objects found")
             /\ res.cylinder = <<>>
             /\ ~res.joined
             /\ res.exports = <<>>
        ELSE /\ \A i \in 1..3 :
                  /\ IsFinite(res.box.min_coords[i])
                  /\ IsFinite(res.box.max_coords[i])
                  /\ \A c \in AllCorners : BoxLo(i) <= c[i] /\ c[i] <= BoxHi(i)
                  /\ \E c \in AllCorners : c[i] = BoxLo(i)
                  /\ \E c \in AllCorners : c[i] = BoxHi(i)
                  /\ BoxLo(i) <= BoxHi(i)
             /\ ScanObjects(Reverse(call.mesh_objects), Reverse(call.order), 1,
                             InitBox) = res.box

C8_Witness ==
    /\ res.called
    /\ call.mesh_objects = <<ObjMirror, ObjRot>>
    /\ call.order = <<3, 7, 1, 5, 8, 2, 6, 4>>
    /\ res.box = [min_coords |-> <<Fin(-1), Fin(-2), Fin(-1)>>,
                  max_coords |-> <<Fin(3), Fin(1), Fin(2)>>]

====
